---- MODULE Spec2Model ----
(***************************************************************************)
(* X-mount.subdir= hookset of libmount (libmount/src/hook_subdir.c).       *)
(*                                                                         *)
(* One mount operation is modelled: the request (action, flags, option     *)
(* string, target), the hookset's registrations and per-operation data,   *)
(* and the kernel-side state the hookset manipulates (current mount       *)
(* namespace, mount stacks at the staging path and at the target, the     *)
(* file-descriptor table).  Every system call the hookset issues is also  *)
(* appended to os.log, so that "which calls were attempted" is a state     *)
(* predicate.                                                              *)
(*                                                                         *)
(* Kernel semantics assumed (the source treats them as given):            *)
(*  - unshare(CLONE_NEWNS) gives the process a copy of the mount table;   *)
(*  - mounts at the staging path stay in the namespace they are made in;  *)
(*  - a mount made on the request's target propagates to the original     *)
(*    namespace (shared propagation of the target's parent mount);        *)
(*  - setns() succeeds exactly when the descriptor is an open reference   *)
(*    to a mount namespace, close() exactly when the descriptor is open;  *)
(*  - the private namespace disappears with its mounts once left.         *)
(* Calls whose result the code tests fail or succeed by the environment's *)
(* choice; umount can additionally fail as "busy" by that choice.         *)
(***************************************************************************)
EXTENDS Integers, Sequences, FiniteSets, TLC

VARIABLES
    nsSupport,      \* build has USE_LIBMOUNT_SUPPORT_NAMESPACES
    action,         \* cxt->action
    xfstabcomm,     \* cxt->user_mountflags & MNT_MS_XFSTABCOMM
    user_optstr,    \* cxt->fs->user_optstr, reduced to the X-mount.subdir item
    target,         \* cxt->fs->target
    hsd,            \* hookset data of this hookset in the context
    hooks,          \* stages at which this hookset has a hook, in order
    os,             \* kernel-side state: [ns, mnt, fds, log]
    pc,             \* position of the dispatch sequence
    ret,            \* last return code of each callback ("none": not run)
    target0         \* the target the request was created with (history)

vars == <<nsSupport, action, xfstabcomm, user_optstr, target, hsd, hooks,
          os, pc, ret, target0>>

----------------------------------------------------------------------------
(* Bounds *)

\* longest X-mount.subdir value in the option string
MaxValLen == 4

\* highest file descriptor number of the process
MaxFd == 3

----------------------------------------------------------------------------
(* Values *)

QUOTE == "\""

Chars == {"a", "b", QUOTE}

\* option text that may follow the directive in the same string
Rests == {<< >>, <<",", "r">>}

MNT_PATH_TMPTGT == "/run/mount/tmptgt"

MNT_RUNTIME_TOPDIR == "/run"

TargetPath == "/mnt/data"

NULLPATH == "NULL"

Paths == {MNT_PATH_TMPTGT, TargetPath}

\* char* that is NULL, or points to the NUL-terminated text str
NULLSTR == [null |-> TRUE, str |-> << >>]

Ptr(s) == [null |-> FALSE, str |-> s]

\* size_t arithmetic is modular; the width is cut to what TLC's integers hold
\* (the code only ever compares sz with 1 and hands it to strndup)
SizeMod == 2 ^ 30

RC_OK == "0"

ENOMEM == "-ENOMEM"

ENOSYS == "-ENOSYS"

ERRNO == "-errno"

MNT_ERR_MOUNTOPT == "-MNT_ERR_MOUNTOPT"

MNT_ERR_APPLYFLAGS == "-MNT_ERR_APPLYFLAGS"

MNT_ACT_MOUNT == "MNT_ACT_MOUNT"

MNT_ACT_UMOUNT == "MNT_ACT_UMOUNT"

Min(a, b) == IF a < b THEN a ELSE b

SeqsUpTo(S, n) == UNION {[1..k -> S] : k \in 0..n}

RangeOf(s) == {s[i] : i \in 1..Len(s)}

CountOf(s, x) == Cardinality({i \in 1..Len(s) : s[i] = x})

----------------------------------------------------------------------------
(* Kernel-side primitives.  Each takes the kernel state o and returns the   *)
(* new one; ok is the environment's verdict where the call can fail for    *)
(* reasons outside the model.                                               *)

LogEntry(call, src, path, fd, sub, ok) ==
    [call |-> call, src |-> src, path |-> path, fd |-> fd, sub |-> sub,
     ok |-> ok]

Logged(o, call, src, path, fd, sub, ok) ==
    [o EXCEPT !.log = Append(@, LogEntry(call, src, path, fd, sub, ok))]

\* a mount of kind "stale", "selfbind", "real" or "rbind" of src (and, for a
\* bind of a subtree, the subdirectory sub below src)
MountEntry(kind, src, sub) == [kind |-> kind, src |-> src, sub |-> sub]

EmptyTable == [p \in Paths |-> << >>]

LowestFreeFd(o) ==
    IF \E n \in 0..MaxFd : o.fds[n] = "closed"
    THEN CHOOSE n \in 0..MaxFd :
            /\ o.fds[n] = "closed"
            /\ \A m \in 0..MaxFd : o.fds[m] = "closed" => n <= m
    ELSE -1

\* open("/proc/self/ns/mnt", O_RDONLY | O_CLOEXEC)
sys_open_ns(o, ok) ==
    LET fd == IF ok THEN LowestFreeFd(o) ELSE -1
        o1 == IF fd >= 0 THEN [o EXCEPT !.fds[fd] = "nsref"] ELSE o
    IN  [os |-> Logged(o1, "open", "/proc/self/ns/mnt", "", fd, << >>, fd >= 0), fd |-> fd]

\* unshare(CLONE_NEWNS)
sys_unshare(o, ok) ==
    LET o1 == IF ok
              THEN [o EXCEPT !.ns = "priv", !.mnt["priv"] = o.mnt[o.ns]]
              ELSE o
    IN  Logged(o1, "unshare", "", "", -1, << >>, ok)

\* ul_mkdir_p(path, S_IRWXU)
sys_mkdir(o, path, ok) == Logged(o, "mkdir", "", path, -1, << >>, ok)

\* mount("none", path, NULL, MS_PRIVATE, NULL)
sys_mount_private(o, path, ok) == Logged(o, "private", "none", path, -1, << >>, ok)

\* mount(src, path, ...) putting a new mount on top of path
sys_mount(o, src, path, kind, sub, ok) ==
    LET e  == MountEntry(kind, src, sub)
        o1 == IF ok /\ path \in Paths
              THEN [o EXCEPT !.mnt = [n \in {"orig", "priv"} |->
                        IF n = o.ns \/ (path = TargetPath /\ o.ns = "priv")
                        THEN [o.mnt[n] EXCEPT ![path] = Append(@, e)]
                        ELSE o.mnt[n]]]
              ELSE o
    IN  Logged(o1, kind, src, path, -1, sub, ok /\ path \in Paths)

\* umount(path): detaches the topmost mount at path in the current namespace
sys_umount(o, path, notbusy) ==
    LET stack == o.mnt[o.ns][path]
        ok    == notbusy /\ Len(stack) > 0
        o1    == IF ok
                 THEN [o EXCEPT !.mnt[o.ns][path] =
                                    SubSeq(stack, 1, Len(stack) - 1)]
                 ELSE o
    IN  Logged(o1, "umount", "", path, -1, << >>, ok)

\* setns(fd, CLONE_NEWNS)
sys_setns(o, fd) ==
    LET ok == fd \in 0..MaxFd /\ o.fds[fd] = "nsref"
        o1 == IF ok
              THEN [o EXCEPT !.ns = "orig", !.mnt["priv"] = EmptyTable]
              ELSE o
    IN  Logged(o1, "setns", "", "", fd, << >>, ok)

\* close(fd)
sys_close(o, fd) ==
    LET ok == fd \in 0..MaxFd /\ o.fds[fd] # "closed"
        o1 == IF ok THEN [o EXCEPT !.fds[fd] = "closed"] ELSE o
    IN  Logged(o1, "close", "", "", fd, << >>, ok)

----------------------------------------------------------------------------
(* Interfaces of libmount the hookset calls                                 *)

\* mnt_optstr_get_option(optstr, "X-mount.subdir", &dir, &sz): 1 when the
\* option is not in the string; otherwise 0 with dir at the first character
\* of the value (NULL when the option has no "=") and sz the value's length.
\* dir points into the option string, so the text at dir runs on through
\* whatever follows the value up to the terminating NUL.
mnt_optstr_get_option(optstr) ==
    IF optstr.null \/ ~optstr.present
    THEN [rc |-> 1, dir |-> NULLSTR, sz |-> 0]
    ELSE IF ~optstr.hasval
    THEN [rc |-> 0, dir |-> NULLSTR, sz |-> 0]
    ELSE [rc |-> 0, dir |-> Ptr(optstr.value \o optstr.rest),
          sz |-> Len(optstr.value)]

\* mnt_context_append_hook(cxt, hs, stage, NULL, func)
mnt_context_append_hook(hk, stage, ok) ==
    IF ok THEN [rc |-> RC_OK, hooks |-> Append(hk, stage)]
          ELSE [rc |-> ENOMEM, hooks |-> hk]

\* strndup(dir, sz): at most sz characters, stopping at the NUL
strndup(s, sz) == SubSeq(s, 1, Min(sz, Len(s)))

----------------------------------------------------------------------------
(* struct hookset_data and its allocation                                   *)

NULLHSD ==
    [null |-> TRUE, subdir |-> NULLSTR, org_target |-> NULLPATH,
     old_ns_fd |-> 0]

\* calloc(1, sizeof(struct hookset_data)) registered in the context;
\* NULL when calloc or mnt_context_set_hookset_data fails
new_hookset_data(m) ==
    IF m.calloc /\ m.set_data
    THEN [null |-> FALSE, subdir |-> NULLSTR, org_target |-> NULLPATH,
          old_ns_fd |-> 0]
    ELSE NULLHSD

----------------------------------------------------------------------------
(* Namespace staging                                                        *)

\* tmptgt_cleanup that closes the reference without switching back
tmptgt_cleanup_nosetns(o, old_ns_fd, e) ==
    IF nsSupport
    THEN LET o1 == sys_umount(o, MNT_PATH_TMPTGT, e.cleanup_umount)
             o2 == IF old_ns_fd >= 0 THEN sys_close(o1, old_ns_fd) ELSE o1
         IN  [os |-> o2, rc |-> RC_OK]
    ELSE [os |-> o, rc |-> ENOSYS]

tmptgt_cleanup(o, old_ns_fd, e) ==
    IF nsSupport
    THEN LET o1 == sys_umount(o, MNT_PATH_TMPTGT, e.cleanup_umount)
             o2 == IF old_ns_fd >= 0
                   THEN sys_close(sys_setns(o1, old_ns_fd), old_ns_fd)
                   ELSE o1
         IN  [os |-> o2, rc |-> RC_OK]
    ELSE [os |-> o, rc |-> ENOSYS]

\* tmptgt_unshare whose failure path returns without rolling back
tmptgt_unshare_norollback(o, slot, e) ==
    IF nsSupport
    THEN LET a  == sys_open_ns(o, e.open)
             fd == a.fd
             b  == sys_unshare(a.os, e.unshare)
             c  == sys_mkdir(b, MNT_PATH_TMPTGT, e.mkdir)
             d  == sys_mount_private(c, MNT_RUNTIME_TOPDIR, e.topdir)
             f  == sys_mount(d, MNT_PATH_TMPTGT, MNT_PATH_TMPTGT, "selfbind",
                             << >>, e.bind)
             g  == sys_mount_private(f, MNT_PATH_TMPTGT, e.private)
             fail(x) == [os |-> x, rc |-> ERRNO, old_ns_fd |-> -1]
             done(x) == [os |-> x, rc |-> RC_OK, old_ns_fd |-> fd]
         IN  IF fd < 0 THEN fail(a.os)
             ELSE IF ~e.unshare THEN fail(b)
             ELSE IF ~e.mkdir THEN fail(c)
             ELSE IF e.topdir THEN done(d)
             ELSE IF ~e.bind THEN fail(f)
             ELSE IF ~e.private THEN fail(g)
             ELSE done(g)
    ELSE [os |-> o, rc |-> ENOSYS, old_ns_fd |-> slot]

\* tmptgt_unshare that self-binds the staging directory in any case
tmptgt_unshare_alwaysbind(o, slot, e) ==
    IF nsSupport
    THEN LET a  == sys_open_ns(o, e.open)
             fd == a.fd
             b  == sys_unshare(a.os, e.unshare)
             c  == sys_mkdir(b, MNT_PATH_TMPTGT, e.mkdir)
             f  == sys_mount(c, MNT_PATH_TMPTGT, MNT_PATH_TMPTGT, "selfbind",
                             << >>, e.bind)
             g  == sys_mount_private(f, MNT_PATH_TMPTGT, e.private)
             fail(x) == [os |-> tmptgt_cleanup(x, fd, e).os, rc |-> ERRNO,
                         old_ns_fd |-> -1]
             done(x) == [os |-> x, rc |-> RC_OK, old_ns_fd |-> fd]
         IN  IF fd < 0 THEN fail(a.os)
             ELSE IF ~e.unshare THEN fail(b)
             ELSE IF ~e.mkdir THEN fail(c)
             ELSE IF ~e.bind THEN fail(f)
             ELSE IF ~e.private THEN fail(g)
             ELSE done(g)
    ELSE [os |-> o, rc |-> ENOSYS, old_ns_fd |-> slot]

\* tmptgt_unshare compiled without the USE_LIBMOUNT_SUPPORT_NAMESPACES test
tmptgt_unshare_noifdef(o, slot, e) ==
    LET a  == sys_open_ns(o, e.open)
        fd == a.fd
        b  == sys_unshare(a.os, e.unshare)
        c  == sys_mkdir(b, MNT_PATH_TMPTGT, e.mkdir)
        d  == sys_mount_private(c, MNT_RUNTIME_TOPDIR, e.topdir)
        f  == sys_mount(d, MNT_PATH_TMPTGT, MNT_PATH_TMPTGT, "selfbind",
                        << >>, e.bind)
        g  == sys_mount_private(f, MNT_PATH_TMPTGT, e.private)
        fail(x) == [os |-> tmptgt_cleanup(x, fd, e).os, rc |-> ERRNO,
                    old_ns_fd |-> -1]
        done(x) == [os |-> x, rc |-> RC_OK, old_ns_fd |-> fd]
    IN  IF fd < 0 THEN fail(a.os)
        ELSE IF ~e.unshare THEN fail(b)
        ELSE IF ~e.mkdir THEN fail(c)
        ELSE IF e.topdir THEN done(d)
        ELSE IF ~e.bind THEN fail(f)
        ELSE IF ~e.private THEN fail(g)
        ELSE done(g)

\* slot is the value of *old_ns_fd on entry; the result's old_ns_fd is its
\* value on return
tmptgt_unshare(o, slot, e) ==
    IF nsSupport
    THEN LET a  == sys_open_ns(o, e.open)
             fd == a.fd
             b  == sys_unshare(a.os, e.unshare)
             c  == sys_mkdir(b, MNT_PATH_TMPTGT, e.mkdir)
             d  == sys_mount_private(c, MNT_RUNTIME_TOPDIR, e.topdir)
             f  == sys_mount(d, MNT_PATH_TMPTGT, MNT_PATH_TMPTGT, "selfbind",
                             << >>, e.bind)
             g  == sys_mount_private(f, MNT_PATH_TMPTGT, e.private)
             fail(x) == [os |-> tmptgt_cleanup(x, fd, e).os, rc |-> ERRNO,
                         old_ns_fd |-> -1]
             done(x) == [os |-> x, rc |-> RC_OK, old_ns_fd |-> fd]
         IN  IF fd < 0 THEN fail(a.os)
             ELSE IF ~e.unshare THEN fail(b)
             ELSE IF ~e.mkdir THEN fail(c)
             ELSE IF e.topdir THEN done(d)
             ELSE IF ~e.bind THEN fail(f)
             ELSE IF ~e.private THEN fail(g)
             ELSE done(g)
    ELSE [os |-> o, rc |-> ENOSYS, old_ns_fd |-> slot]

----------------------------------------------------------------------------
(* Promotion                                                                *)

\* do_mount_subdir that leaves the staging root mounted when the bind fails
do_mount_subdir_stoponbind(o, root, subdir, tgt, e) ==
    IF ~e.asprintf
    THEN [os |-> o, rc |-> ENOMEM]
    ELSE LET o1 == sys_mount(o, root, tgt, "rbind", subdir, e.bind)
             o2 == sys_umount(o1, root, e.umount)
         IN  IF ~o1.log[Len(o1.log)].ok
             THEN [os |-> o1, rc |-> MNT_ERR_APPLYFLAGS]
             ELSE [os |-> o2,
                   rc |-> IF o2.log[Len(o2.log)].ok THEN RC_OK
                          ELSE MNT_ERR_APPLYFLAGS]

do_mount_subdir(o, root, subdir, tgt, e) ==
    IF ~e.asprintf
    THEN [os |-> o, rc |-> ENOMEM]
    ELSE LET o1 == sys_mount(o, root, tgt, "rbind", subdir, e.bind)
             o2 == sys_umount(o1, root, e.umount)
             ok == o1.log[Len(o1.log)].ok /\ o2.log[Len(o2.log)].ok
         IN  [os |-> o2, rc |-> IF ok THEN RC_OK ELSE MNT_ERR_APPLYFLAGS]

\* hook_mount_post that binds without resetting the target first
hook_mount_post_noreset(e) ==
    IF hsd.null \/ hsd.subdir.null
    THEN [rc |-> RC_OK, target |-> target, hsd |-> hsd, os |-> os]
    ELSE LET tgt == target
             d   == do_mount_subdir(os, MNT_PATH_TMPTGT, hsd.subdir.str,
                                    tgt, e)
         IN  IF d.rc # RC_OK
             THEN [rc |-> d.rc, target |-> tgt, hsd |-> hsd, os |-> d.os]
             ELSE [rc |-> d.rc, target |-> tgt,
                   hsd |-> [hsd EXCEPT !.old_ns_fd = -1],
                   os |-> tmptgt_cleanup(d.os, hsd.old_ns_fd, e).os]

\* hook_mount_post that leaves old_ns_fd set after its cleanup
hook_mount_post_keepfd(e) ==
    IF hsd.null \/ hsd.subdir.null
    THEN [rc |-> RC_OK, target |-> target, hsd |-> hsd, os |-> os]
    ELSE LET tgt == hsd.org_target
             d   == do_mount_subdir(os, MNT_PATH_TMPTGT, hsd.subdir.str,
                                    tgt, e)
         IN  IF d.rc # RC_OK
             THEN [rc |-> d.rc, target |-> tgt, hsd |-> hsd, os |-> d.os]
             ELSE [rc |-> d.rc, target |-> tgt, hsd |-> hsd,
                   os |-> tmptgt_cleanup(d.os, hsd.old_ns_fd, e).os]

hook_mount_post(e) ==
    IF hsd.null \/ hsd.subdir.null
    THEN [rc |-> RC_OK, target |-> target, hsd |-> hsd, os |-> os]
    ELSE LET tgt == hsd.org_target
             d   == do_mount_subdir(os, MNT_PATH_TMPTGT, hsd.subdir.str,
                                    tgt, e)
         IN  IF d.rc # RC_OK
             THEN [rc |-> d.rc, target |-> tgt, hsd |-> hsd, os |-> d.os]
             ELSE [rc |-> d.rc, target |-> tgt,
                   hsd |-> [hsd EXCEPT !.old_ns_fd = -1],
                   os |-> tmptgt_cleanup(d.os, hsd.old_ns_fd, e).os]

\* hook_mount_pre that rewrites the target whatever tmptgt_unshare returned
hook_mount_pre_rewrite(e) ==
    IF hsd.null
    THEN [rc |-> RC_OK, target |-> target, hsd |-> hsd, hooks |-> hooks,
          os |-> os]
    ELSE LET org == IF e.strdup THEN target ELSE NULLPATH
             rc1 == IF org = NULLPATH THEN ENOMEM ELSE RC_OK
             u   == IF rc1 = RC_OK
                    THEN tmptgt_unshare(os, hsd.old_ns_fd, e)
                    ELSE [os |-> os, rc |-> rc1, old_ns_fd |-> hsd.old_ns_fd]
             a   == IF u.rc = RC_OK
                    THEN mnt_context_append_hook(hooks, "MNT_STAGE_MOUNT_POST",
                                                 e.append)
                    ELSE [rc |-> u.rc, hooks |-> hooks]
         IN  [rc |-> a.rc,
              target |-> MNT_PATH_TMPTGT,
              hsd |-> [hsd EXCEPT !.org_target = org,
                                  !.old_ns_fd = u.old_ns_fd],
              hooks |-> a.hooks,
              os |-> u.os]

\* hook_mount_pre that appends the post-mount hook whatever happened before
hook_mount_pre_alwayspost(e) ==
    IF hsd.null
    THEN [rc |-> RC_OK, target |-> target, hsd |-> hsd, hooks |-> hooks,
          os |-> os]
    ELSE LET org == IF e.strdup THEN target ELSE NULLPATH
             rc1 == IF org = NULLPATH THEN ENOMEM ELSE RC_OK
             u   == IF rc1 = RC_OK
                    THEN tmptgt_unshare(os, hsd.old_ns_fd, e)
                    ELSE [os |-> os, rc |-> rc1, old_ns_fd |-> hsd.old_ns_fd]
             a   == mnt_context_append_hook(hooks, "MNT_STAGE_MOUNT_POST",
                                            e.append)
         IN  [rc |-> IF u.rc = RC_OK THEN a.rc ELSE u.rc,
              target |-> IF u.rc = RC_OK THEN MNT_PATH_TMPTGT ELSE target,
              hsd |-> [hsd EXCEPT !.org_target = org,
                                  !.old_ns_fd = u.old_ns_fd],
              hooks |-> a.hooks,
              os |-> u.os]

hook_mount_pre(e) ==
    IF hsd.null
    THEN [rc |-> RC_OK, target |-> target, hsd |-> hsd, hooks |-> hooks,
          os |-> os]
    ELSE LET org == IF e.strdup THEN target ELSE NULLPATH
             rc1 == IF org = NULLPATH THEN ENOMEM ELSE RC_OK
             u   == IF rc1 = RC_OK
                    THEN tmptgt_unshare(os, hsd.old_ns_fd, e)
                    ELSE [os |-> os, rc |-> rc1, old_ns_fd |-> hsd.old_ns_fd]
             a   == IF u.rc = RC_OK
                    THEN mnt_context_append_hook(hooks, "MNT_STAGE_MOUNT_POST",
                                                 e.append)
                    ELSE [rc |-> u.rc, hooks |-> hooks]
         IN  [rc |-> a.rc,
              target |-> IF u.rc = RC_OK THEN MNT_PATH_TMPTGT ELSE target,
              hsd |-> [hsd EXCEPT !.org_target = org,
                                  !.old_ns_fd = u.old_ns_fd],
              hooks |-> a.hooks,
              os |-> u.os]

----------------------------------------------------------------------------
(* Option detection                                                         *)

\* req is the function's return value, rc and subdir its two out-parameters
is_subdir_required(m) ==
    LET g == mnt_optstr_get_option(user_optstr)
    IN  IF user_optstr.null \/ g.rc # 0
        THEN [req |-> FALSE, rc |-> RC_OK, subdir |-> NULLSTR]
        ELSE LET quoted == /\ ~g.dir.null
                           /\ Len(g.dir.str) > 0
                           /\ g.dir.str[1] = QUOTE
                 dir == IF quoted THEN Ptr(Tail(g.dir.str)) ELSE g.dir
                 sz  == IF quoted THEN (g.sz - 2) % SizeMod ELSE g.sz
             IN  IF dir.null \/ sz < 1
                 THEN [req |-> FALSE, rc |-> MNT_ERR_MOUNTOPT,
                       subdir |-> NULLSTR]
                 ELSE IF m.strndup
                 THEN [req |-> TRUE, rc |-> RC_OK,
                       subdir |-> Ptr(strndup(dir.str, sz))]
                 ELSE [req |-> FALSE, rc |-> ENOMEM, subdir |-> NULLSTR]

\* hook_prepare_target that does not test the MNT_MS_XFSTABCOMM flag
hook_prepare_target_noflag(m) ==
    IF target = NULLPATH
    THEN [rc |-> RC_OK, hsd |-> hsd, hooks |-> hooks]
    ELSE IF action = MNT_ACT_MOUNT
    THEN LET r == is_subdir_required(m)
             h == new_hookset_data(m)
             a == mnt_context_append_hook(hooks, "MNT_STAGE_MOUNT_PRE",
                                          m.append)
         IN  IF ~r.req
             THEN [rc |-> r.rc, hsd |-> hsd, hooks |-> hooks]
             ELSE IF h.null
             THEN [rc |-> ENOMEM, hsd |-> hsd, hooks |-> hooks]
             ELSE [rc |-> a.rc, hsd |-> [h EXCEPT !.subdir = r.subdir],
                   hooks |-> a.hooks]
    ELSE [rc |-> RC_OK, hsd |-> hsd, hooks |-> hooks]

hook_prepare_target(m) ==
    IF target = NULLPATH
    THEN [rc |-> RC_OK, hsd |-> hsd, hooks |-> hooks]
    ELSE IF action = MNT_ACT_MOUNT /\ xfstabcomm
    THEN LET r == is_subdir_required(m)
             h == new_hookset_data(m)
             a == mnt_context_append_hook(hooks, "MNT_STAGE_MOUNT_PRE",
                                          m.append)
         IN  IF ~r.req
             THEN [rc |-> r.rc, hsd |-> hsd, hooks |-> hooks]
             ELSE IF h.null
             THEN [rc |-> ENOMEM, hsd |-> hsd, hooks |-> hooks]
             ELSE [rc |-> a.rc, hsd |-> [h EXCEPT !.subdir = r.subdir],
                   hooks |-> a.hooks]
    ELSE [rc |-> RC_OK, hsd |-> hsd, hooks |-> hooks]

----------------------------------------------------------------------------
(* Hookset lifecycle                                                        *)

\* free_hookset_data that frees the data without the pending cleanup
free_hookset_data_nocleanup(e) ==
    IF hsd.null
    THEN [hsd |-> hsd, os |-> os]
    ELSE [hsd |-> NULLHSD, os |-> os]

free_hookset_data(e) ==
    IF hsd.null
    THEN [hsd |-> hsd, os |-> os]
    ELSE [hsd |-> NULLHSD,
          os |-> IF hsd.old_ns_fd >= 0
                 THEN tmptgt_cleanup(os, hsd.old_ns_fd, e).os
                 ELSE os]

\* state after hookset_init: the target-preparation hook is registered
hookset_init == <<"MNT_STAGE_PREP_TARGET">>

\* hookset_deinit that removes one hook instead of looping until none is left
hookset_deinit_removeone(e) ==
    LET f == free_hookset_data(e)
    IN  [rc |-> RC_OK,
         hooks |-> IF hooks = << >> THEN hooks ELSE Tail(hooks),
         hsd |-> f.hsd, os |-> f.os]

hookset_deinit(e) ==
    LET f == free_hookset_data(e)
    IN  [rc |-> RC_OK, hooks |-> << >>, hsd |-> f.hsd, os |-> f.os]

----------------------------------------------------------------------------
(* The mount operation: the dispatch sequence calls the hooks registered    *)
(* for each stage in stage order, does the mount between the pre- and the  *)
(* post-mount stage, stops at the first failure, and deinitializes the     *)
(* hookset when the context is released (possible at any point).           *)

Values == SeqsUpTo(Chars, MaxValLen)

OptStrs ==
    {[null |-> TRUE, present |-> FALSE, hasval |-> FALSE, value |-> << >>,
      rest |-> << >>],
     [null |-> FALSE, present |-> FALSE, hasval |-> FALSE, value |-> << >>,
      rest |-> << >>],
     [null |-> FALSE, present |-> TRUE, hasval |-> FALSE, value |-> << >>,
      rest |-> << >>]}
    \cup {[null |-> FALSE, present |-> TRUE, hasval |-> TRUE, value |-> v,
           rest |-> r] : v \in Values, r \in Rests}

InitialFds == [n \in 0..MaxFd |-> IF n <= 2 THEN "file" ELSE "closed"]

StaleMount == MountEntry("stale", "", << >>)

NoReturns ==
    [prep |-> "none", pre |-> "none", mount |-> "none", post |-> "none",
     deinit |-> "none"]

Init ==
    /\ nsSupport \in BOOLEAN
    /\ action \in {MNT_ACT_MOUNT, MNT_ACT_UMOUNT}
    /\ xfstabcomm \in BOOLEAN
    /\ user_optstr \in OptStrs
    /\ target \in {TargetPath, NULLPATH}
    /\ target0 = target
    /\ hsd = NULLHSD
    /\ hooks = hookset_init
    /\ \E stale \in {<< >>, <<StaleMount>>} :
          os = [ns |-> "orig",
                mnt |-> [n \in {"orig", "priv"} |->
                           IF n = "orig"
                           THEN [EmptyTable EXCEPT ![MNT_PATH_TMPTGT] = stale]
                           ELSE EmptyTable],
                fds |-> InitialFds,
                log |-> << >>]
    /\ pc = "prep"
    /\ ret = NoReturns

Registered(stage) == stage \in RangeOf(hooks)

NextPc(rc, next) == IF rc = RC_OK THEN next ELSE "failed"

PrepEnv == [strndup : BOOLEAN, calloc : BOOLEAN, set_data : BOOLEAN,
            append : BOOLEAN]

PreEnv == [strdup : BOOLEAN, open : BOOLEAN, unshare : BOOLEAN,
           mkdir : BOOLEAN, topdir : BOOLEAN, bind : BOOLEAN,
           private : BOOLEAN, append : BOOLEAN, cleanup_umount : BOOLEAN]

PostEnv == [asprintf : BOOLEAN, bind : BOOLEAN, umount : BOOLEAN,
            cleanup_umount : BOOLEAN]

DeinitEnv == [cleanup_umount : BOOLEAN]

HookPrepareTarget ==
    /\ pc = "prep"
    /\ Registered("MNT_STAGE_PREP_TARGET")
    /\ \E m \in PrepEnv :
          LET r == hook_prepare_target(m)
          IN  /\ hsd' = r.hsd
              /\ hooks' = r.hooks
              /\ ret' = [ret EXCEPT !.prep = r.rc]
              /\ pc' = NextPc(r.rc, "pre")
    /\ UNCHANGED <<nsSupport, action, xfstabcomm, user_optstr, target, os,
                   target0>>

HookMountPre ==
    /\ pc = "pre"
    /\ Registered("MNT_STAGE_MOUNT_PRE")
    /\ \E e \in PreEnv :
          LET r == hook_mount_pre(e)
          IN  /\ target' = r.target
              /\ hsd' = r.hsd
              /\ hooks' = r.hooks
              /\ os' = r.os
              /\ ret' = [ret EXCEPT !.pre = r.rc]
              /\ pc' = NextPc(r.rc, "mount")
    /\ UNCHANGED <<nsSupport, action, xfstabcomm, user_optstr, target0>>

\* the mount(2) of the request's source on the request's current target
ExternalMount ==
    /\ pc = "mount"
    /\ \E ok \in BOOLEAN :
          LET o1 == sys_mount(os, "source", target, "real", << >>, ok)
              rc == IF o1.log[Len(o1.log)].ok THEN RC_OK ELSE ERRNO
          IN  /\ os' = o1
              /\ ret' = [ret EXCEPT !.mount = rc]
              /\ pc' = NextPc(rc, "post")
    /\ UNCHANGED <<nsSupport, action, xfstabcomm, user_optstr, target, hsd,
                   hooks, target0>>

HookMountPost ==
    /\ pc = "post"
    /\ Registered("MNT_STAGE_MOUNT_POST")
    /\ \E e \in PostEnv :
          LET r == hook_mount_post(e)
          IN  /\ target' = r.target
              /\ hsd' = r.hsd
              /\ os' = r.os
              /\ ret' = [ret EXCEPT !.post = r.rc]
              /\ pc' = NextPc(r.rc, "end")
    /\ UNCHANGED <<nsSupport, action, xfstabcomm, user_optstr, hooks,
                   target0>>

\* a stage at which this hookset has no hook passes without effect
SkipStage ==
    /\ \/ pc = "pre" /\ ~Registered("MNT_STAGE_MOUNT_PRE") /\ pc' = "mount"
       \/ pc = "post" /\ ~Registered("MNT_STAGE_MOUNT_POST") /\ pc' = "end"
    /\ UNCHANGED <<nsSupport, action, xfstabcomm, user_optstr, target, hsd,
                   hooks, os, ret, target0>>

HooksetDeinit ==
    /\ pc # "done"
    /\ \E e \in DeinitEnv :
          LET r == hookset_deinit(e)
          IN  /\ hooks' = r.hooks
              /\ hsd' = r.hsd
              /\ os' = r.os
              /\ ret' = [ret EXCEPT !.deinit = r.rc]
    /\ pc' = "done"
    /\ UNCHANGED <<nsSupport, action, xfstabcomm, user_optstr, target,
                   target0>>

Next ==
    \/ HookPrepareTarget
    \/ HookMountPre
    \/ ExternalMount
    \/ HookMountPost
    \/ SkipStage
    \/ HooksetDeinit

Spec == Init /\ [][Next]_vars

\* The staging teardown called twice in sequence with the same saved
\* reference, on a staging that hook_mount_pre has entered.
TeardownTwice ==
    /\ pc \in {"mount", "post"}
    /\ ~hsd.null
    /\ os.ns = "priv"
    /\ \E e1 \in DeinitEnv, e2 \in DeinitEnv :
          LET first  == tmptgt_cleanup(os, hsd.old_ns_fd, e1)
              second == tmptgt_cleanup(first.os, hsd.old_ns_fd, e2)
          IN  /\ os' = second.os
              /\ ret' = [ret EXCEPT !.deinit =
                            IF first.rc = RC_OK THEN second.rc ELSE first.rc]
    /\ pc' = "done"
    /\ UNCHANGED <<nsSupport, action, xfstabcomm, user_optstr, target, hsd,
                   hooks, target0>>

SpecTeardown == Init /\ [][Next \/ TeardownTwice]_vars

TypeOK ==
    /\ pc \in {"prep", "pre", "mount", "post", "end", "failed", "done"}
    /\ os.ns \in {"orig", "priv"}
    /\ target \in Paths \cup {NULLPATH}
    /\ hsd.old_ns_fd \in -1..MaxFd

----------------------------------------------------------------------------
(* Vocabulary of the properties                                             *)

LogHas(P(_)) == \E i \in 1..Len(os.log) : P(os.log[i])

\* no mount made during the operation is left on the staging path, in any
\* namespace that exists
NoStagingMount ==
    \A n \in {"orig", "priv"} :
        \A i \in 1..Len(os.mnt[n][MNT_PATH_TMPTGT]) :
            os.mnt[n][MNT_PATH_TMPTGT][i].kind = "stale"

\* no descriptor of the process refers to a mount namespace
NsRefReleased == \A n \in 0..MaxFd : os.fds[n] # "nsref"

IsFailedStagingStep(l) ==
    /\ ~l.ok
    /\ \/ l.call \in {"open", "unshare", "mkdir", "selfbind"}
       \/ l.call = "private" /\ l.path = MNT_PATH_TMPTGT

\* tmptgt_unshare ran and one of its steps failed
UnshareFailed == LogHas(IsFailedStagingStep)

IsSelfBindDone(l) == l.call = "selfbind" /\ l.ok

IsPrivateFailedOnStaging(l) ==
    l.call = "private" /\ l.path = MNT_PATH_TMPTGT /\ ~l.ok

IsSetnsDone(l) == l.call = "setns" /\ l.ok

----------------------------------------------------------------------------
(* C1: cleanup on early abort.  In every run in which hook_mount_pre       *)
(* succeeded, whatever became of hook_mount_post, once hookset_deinit has  *)
(* returned the process is in the original namespace, no staging mount     *)
(* remains and no namespace reference is held open.                        *)
C1_CleanupOnAbort ==
    (pc = "done" /\ ret.pre = RC_OK) =>
        /\ os.ns = "orig"
        /\ NoStagingMount
        /\ NsRefReleased

\* deinit ran after a successful pre-mount stage and mount, the post-mount
\* hook never ran, and the namespace was switched back
C1_Witness ==
    /\ pc = "done"
    /\ ret.pre = RC_OK
    /\ ret.mount = RC_OK
    /\ ret.post = "none"
    /\ LogHas(IsSetnsDone)
    /\ LogHas(IsSelfBindDone)

(* C2: rollback completeness.  When tmptgt_unshare has failed at any step  *)
(* and returned, nothing was added at the staging path, the process is in  *)
(* the namespace it started in, the handle is closed and the caller's slot *)
(* is -1.                                                                  *)
C2_RollbackComplete ==
    (UnshareFailed /\ ret.deinit = "none") =>
        /\ NoStagingMount
        /\ os.ns = "orig"
        /\ NsRefReleased
        /\ ~hsd.null /\ hsd.old_ns_fd = -1

\* the self-bind fallback succeeded and the private-mark after it failed
C2_Witness ==
    /\ UnshareFailed
    /\ ret.deinit = "none"
    /\ LogHas(IsSelfBindDone)
    /\ LogHas(IsPrivateFailedOnStaging)

(* C3: after a successful full run the process is in the namespace it      *)
(* started in, the staging path carries neither the real mount nor a       *)
(* self-bind, and the saved reference slot is absent.                      *)
C3_RestoredAfterSuccess ==
    ret.post = RC_OK =>
        /\ os.ns = "orig"
        /\ NoStagingMount
        /\ hsd.null \/ hsd.old_ns_fd = -1

\* hook_mount_post has just succeeded on a staging made by the fallback
C3_Witness ==
    /\ ret.post = RC_OK
    /\ pc = "end"
    /\ ~hsd.null
    /\ LogHas(IsSelfBindDone)
    /\ LogHas(IsSetnsDone)

(* C4: namespace-guard invariant.  While per-operation state exists, the   *)
(* saved reference is present (old_ns_fd >= 0) exactly when tmptgt_unshare *)
(* has succeeded and the namespace has not been restored since.           *)
C4_NamespaceGuard ==
    ~hsd.null => (hsd.old_ns_fd >= 0 <=> os.ns = "priv")

----------------------------------------------------------------------------
(* Directive cases *)

\* a mount from an fstab-style invocation with a target
Eligible == action = MNT_ACT_MOUNT /\ xfstabcomm /\ target0 # NULLPATH

HasValue == ~user_optstr.null /\ user_optstr.present /\ user_optstr.hasval

DirectiveValue == user_optstr.value

\* the option string has no X-mount.subdir, or the request is not eligible
NoDirective ==
    \/ user_optstr.null
    \/ ~user_optstr.present
    \/ action # MNT_ACT_MOUNT
    \/ ~xfstabcomm

PrepReturned == ret.prep # "none"

PreHooks == CountOf(hooks, "MNT_STAGE_MOUNT_PRE")

IsHooksetCall(l) == l.call # "real"

(* C5: a malformed directive is rejected.  For an eligible request whose   *)
(* directive has an empty value, the value "" (two quotes) or the value "  *)
(* (one quote, length 1), hook_prepare_target returns -MNT_ERR_MOUNTOPT,   *)
(* allocates no state, stores no subdir and registers no pre-mount hook    *)
(* (runs in which an allocation fails are left aside).                     *)
C5_MalformedRejected ==
    ( /\ Eligible
      /\ HasValue
      /\ DirectiveValue \in {<< >>, <<QUOTE, QUOTE>>, <<QUOTE>>}
      /\ PrepReturned
      /\ ret.prep # ENOMEM ) =>
        /\ ret.prep = MNT_ERR_MOUNTOPT
        /\ hsd.null
        /\ PreHooks = 0

(* C6: no directive is a complete no-op.  When the option string has no    *)
(* X-mount.subdir, or the action is not a mount, or the fstab flag is not  *)
(* set, hook_prepare_target returns success, no state is allocated, no     *)
(* hook is added to the initial one, the target is unchanged and the       *)
(* hookset makes no system call up to and including deinit.                *)
C6_NoDirectiveNoOp ==
    NoDirective =>
        /\ ret.prep \in {"none", RC_OK}
        /\ hsd.null
        /\ hooks \in {hookset_init, << >>}
        /\ target = target0
        /\ ~LogHas(IsHooksetCall)

\* a whole operation without the directive: mounted, then deinitialized
C6_Witness ==
    /\ Eligible
    /\ ~user_optstr.null
    /\ ~user_optstr.present
    /\ ret.prep = RC_OK
    /\ ret.mount = RC_OK
    /\ pc = "done"

IsSetns(l) == l.call = "setns"

IsOpen(l) == l.call = "open"

\* a descriptor is used (setns or close) after an earlier successful close
UsesClosedRef ==
    \E i \in 1..Len(os.log), j \in 1..Len(os.log) :
        /\ i < j
        /\ os.log[i].call = "close" /\ os.log[i].ok
        /\ os.log[j].call \in {"setns", "close"}
        /\ os.log[j].fd = os.log[i].fd

(* C7: teardown idempotence.  For one staging set up by tmptgt_unshare,    *)
(* tearing it down twice in sequence (tmptgt_cleanup directly, or through  *)
(* hook_mount_post then hookset_deinit, or through a failed tmptgt_unshare *)
(* then hookset_deinit) returns no error, calls setns at most once and     *)
(* never uses a descriptor already closed.                                 *)
C7_TeardownIdempotent ==
    LogHas(IsOpen) =>
        /\ ret.deinit \in {"none", RC_OK}
        /\ Cardinality({i \in 1..Len(os.log) : IsSetns(os.log[i])}) <= 1
        /\ ~UsesClosedRef

IsRealOnStaging(l) ==
    l.call = "real" /\ l.path = MNT_PATH_TMPTGT /\ l.ok

IsBindOntoStaging(l) == l.call = "rbind" /\ l.path = MNT_PATH_TMPTGT

\* the real mount was made on the staging path, and afterwards
\* MNT_PATH_TMPTGT/sub was bind-mounted on path
PromotedTo(path) ==
    \E i \in 1..Len(os.log), j \in 1..Len(os.log) :
        /\ i < j
        /\ IsRealOnStaging(os.log[i])
        /\ os.log[j].call = "rbind" /\ os.log[j].ok
        /\ os.log[j].src = MNT_PATH_TMPTGT
        /\ os.log[j].path = path

TopOf(stack) == stack[Len(stack)]

(* C8: end-to-end promotion.  After a successful full run the staging      *)
(* path first received the real mount, MNT_PATH_TMPTGT/subdir is the       *)
(* recursive bind mounted on the original target (never on the staging     *)
(* path), and the request's target is the original target again.           *)
C8_Promotion ==
    ret.post = RC_OK =>
        /\ target = target0
        /\ PromotedTo(target0)
        /\ ~LogHas(IsBindOntoStaging)
        /\ Len(os.mnt["orig"][target0]) > 0
        /\ TopOf(os.mnt["orig"][target0]).kind = "rbind"
        /\ TopOf(os.mnt["orig"][target0]).src = MNT_PATH_TMPTGT
        /\ ~hsd.null => TopOf(os.mnt["orig"][target0]).sub = hsd.subdir.str

\* promotion of subdirectory "ab" has just finished
C8_Witness ==
    /\ ret.post = RC_OK
    /\ pc = "end"
    /\ ~hsd.null
    /\ hsd.subdir.str = <<"a", "b">>
    /\ os.ns = "orig"

(* C9: failed staging leaves the request untouched.  When tmptgt_unshare   *)
(* fails inside hook_mount_pre, hook_mount_pre returns that error, the     *)
(* target is still the original one, the post-mount hook is not            *)
(* registered, nothing is mounted on the original target and no staging    *)
(* mount remains.                                                          *)
C9_FailedStagingUntouched ==
    UnshareFailed =>
        /\ ret.pre = ERRNO
        /\ pc \in {"failed", "done"}
        /\ target = target0
        /\ ~Registered("MNT_STAGE_MOUNT_POST")
        /\ \A n \in {"orig", "priv"} : os.mnt[n][target0] = << >>
        /\ NoStagingMount

IsTopdirPrivateFailed(l) ==
    l.call = "private" /\ l.path = MNT_RUNTIME_TOPDIR /\ ~l.ok

IsSelfBindFailed(l) == l.call = "selfbind" /\ ~l.ok

\* both the private-mark of the runtime directory and the self-bind failed
C9_Witness ==
    /\ UnshareFailed
    /\ pc = "failed"
    /\ LogHas(IsTopdirPrivateFailed)
    /\ LogHas(IsSelfBindFailed)

Unquoted(v) == SubSeq(v, 2, Len(v) - 1)

WellQuoted(v) == Len(v) >= 3 /\ v[1] = QUOTE /\ v[Len(v)] = QUOTE

\* a quote, then at least one character, and no quote at the end
Unterminated(v) ==
    /\ Len(v) >= 2
    /\ v[1] = QUOTE
    /\ v[Len(v)] # QUOTE

AcceptedAs(v) ==
    /\ ret.prep = RC_OK
    /\ ~hsd.null
    /\ hsd.subdir = Ptr(v)
    /\ PreHooks = 1

(* C10: directive extraction.  For an eligible request and when no         *)
(* allocation fails, a value v that is non-empty and unquoted gives        *)
(* subdir = v, a value "v" with v non-empty gives subdir = v; state is     *)
(* allocated with that subdir and exactly one pre-mount hook registered.   *)
(* A value that starts with a quote, goes on, and has no closing quote is  *)
(* not accepted.                                                           *)
C10_Extraction ==
    ( /\ Eligible
      /\ HasValue
      /\ PrepReturned
      /\ ret.prep # ENOMEM
      /\ ret.deinit = "none" ) =>
        /\ (Len(DirectiveValue) >= 1 /\ DirectiveValue[1] # QUOTE)
              => AcceptedAs(DirectiveValue)
        /\ WellQuoted(DirectiveValue)
              => AcceptedAs(Unquoted(DirectiveValue))
        /\ Unterminated(DirectiveValue) => (hsd.null /\ PreHooks = 0)

----------------------------------------------------------------------------
(* C11: namespace cleanup on failed promotion.  When the bind or the       *)
(* unmount inside do_mount_subdir fails, hook_mount_post returns           *)
(* -MNT_ERR_APPLYFLAGS and has nevertheless called tmptgt_cleanup: on its  *)
(* return the process is in the original namespace, the reference is       *)
(* closed and the saved slot is -1.                                        *)
C11_CleanupOnFailedPromotion ==
    (ret.post = MNT_ERR_APPLYFLAGS /\ ret.deinit = "none") =>
        /\ os.ns = "orig"
        /\ NsRefReleased
        /\ ~hsd.null /\ hsd.old_ns_fd = -1

IsBind(l) == l.call = "rbind"

\* the call right after the bind is the unmount of the staging root, and rc
\* is the outcome of the two
BothStepsAt(j, rc) ==
    /\ j < Len(os.log)
    /\ os.log[j + 1].call = "umount"
    /\ os.log[j + 1].path = MNT_PATH_TMPTGT
    /\ rc = MNT_ERR_APPLYFLAGS <=> (~os.log[j].ok \/ ~os.log[j + 1].ok)
    /\ rc = RC_OK <=> (os.log[j].ok /\ os.log[j + 1].ok)

(* C12: promotion attempts both steps.  In do_mount_subdir the unmount of  *)
(* the staging root is attempted whether or not the bind succeeded, and    *)
(* the result is -MNT_ERR_APPLYFLAGS exactly when at least one of the two  *)
(* failed, success exactly when both succeeded.                            *)
C12_BothStepsAttempted ==
    \A j \in 1..Len(os.log) : IsBind(os.log[j]) => BothStepsAt(j, ret.post)

\* the bind failed and the unmount after it succeeded
C12_Witness ==
    \E j \in 1..Len(os.log) :
        /\ IsBind(os.log[j]) /\ ~os.log[j].ok
        /\ j < Len(os.log)
        /\ os.log[j + 1].call = "umount" /\ os.log[j + 1].ok
        /\ ret.post = MNT_ERR_APPLYFLAGS

IsTeardownCall(l) == l.call \in {"umount", "setns", "close"}

IsDescriptorZero(l) == l.call \in {"setns", "close"} /\ l.fd = 0

(* C13: no cleanup without staging.  As long as tmptgt_unshare has not     *)
(* been called for the operation (deinit before hook_mount_pre, or         *)
(* hook_mount_pre failed copying the target), the hookset makes no umount, *)
(* setns or close, and descriptor 0 is never handed to tmptgt_cleanup.     *)
C13_NoCleanupWithoutStaging ==
    /\ ~LogHas(IsOpen) => ~LogHas(IsTeardownCall)
    /\ ~LogHas(IsDescriptorZero)

(* C15: the target is toggled back.  Once the operation has ended with     *)
(* hookset_deinit, the request's target is the original target and never   *)
(* the staging path, also when the operation was aborted after             *)
(* hook_mount_pre had rewritten it.                                        *)
C15_TargetToggledBack ==
    pc = "done" => (target = target0 /\ target # MNT_PATH_TMPTGT)

IsOpenFailed(l) == l.call = "open" /\ ~l.ok

IsUnshareFailed(l) == l.call = "unshare" /\ ~l.ok

IsUmountDone(l) == l.call = "umount" /\ l.ok

(* C17: rollback touches only what staging added.  When tmptgt_unshare     *)
(* fails before the new namespace exists (open or unshare fails), the      *)
(* process never left the original namespace, so any unmount that takes    *)
(* effect removes a mount that was there before the call: none does.       *)
C17_RollbackKeepsForeignMounts ==
    ( /\ LogHas(IsOpenFailed) \/ LogHas(IsUnshareFailed)
      /\ ret.deinit = "none" ) =>
        ~LogHas(IsUmountDone)

IsUnshareDone(l) == l.call = "unshare" /\ l.ok

\* the call at position j of the log was made inside the private namespace:
\* an unshare succeeded before it and no setns succeeded in between
InPrivateAt(j) ==
    \E i \in 1..(j - 1) :
        /\ IsUnshareDone(os.log[i])
        /\ \A k \in (i + 1)..(j - 1) : ~IsSetnsDone(os.log[k])

\* who may have registered what, and where the promotion bind happens
C14_Registration ==
    /\ Registered("MNT_STAGE_MOUNT_PRE") =>
          /\ ret.prep = RC_OK
          /\ Eligible /\ HasValue
          /\ ~hsd.null /\ ~hsd.subdir.null
    /\ Registered("MNT_STAGE_MOUNT_POST") =>
          /\ Registered("MNT_STAGE_MOUNT_PRE")
          /\ ret.pre = RC_OK
          /\ LogHas(IsUnshareDone)
          /\ ret.post = "none" => (target = MNT_PATH_TMPTGT /\ os.ns = "priv")
    /\ \A j \in 1..Len(os.log) :
          IsBind(os.log[j]) => (os.log[j].path = target0 /\ InPrivateAt(j))

\* state of the per-operation data: a failed stage leaves the phase as it
\* is; "TornDown" is the end of an operation that was not promoted, which is
\* the Aborted terminal when it is entered from DirectiveDetected or Staged
Phase ==
    IF ret.post = RC_OK THEN "Promoted"
    ELSE IF pc = "done" THEN "TornDown"
    ELSE IF hsd.null THEN "Idle"
    ELSE IF os.ns = "priv" /\ hsd.old_ns_fd >= 0 THEN "Staged"
    ELSE "DirectiveDetected"

C14_PhaseStep ==
    \/ Phase' = Phase
    \/ Phase = "Idle" /\ Phase' \in {"DirectiveDetected", "TornDown"}
    \/ Phase = "DirectiveDetected" /\ Phase' \in {"Staged", "TornDown"}
    \/ Phase = "Staged" /\ Phase' \in {"Promoted", "TornDown"}

(* C14: stage ordering.  hook_mount_pre is registered only by a            *)
(* hook_prepare_target that accepted a directive and allocated state,      *)
(* hook_mount_post only by a hook_mount_pre whose tmptgt_unshare succeeded *)
(* and which rewrote the target; the promotion bind goes onto the original *)
(* target from inside the private namespace; and the per-operation state   *)
(* moves only Idle -> DirectiveDetected -> Staged -> Promoted, being torn  *)
(* down unpromoted only from DirectiveDetected or Staged.                  *)
C14_StageOrdering == []C14_Registration /\ [][C14_PhaseStep]_vars

\* the operation went through all phases and the promotion bind was made
C14_Witness ==
    /\ Phase = "Promoted"
    /\ pc = "end"
    /\ Registered("MNT_STAGE_MOUNT_POST")
    /\ LogHas(IsBind)

(* C16: deinit leaves nothing registered.  After hookset_deinit has        *)
(* returned, from whatever state of the operation, this hookset has no     *)
(* hook left at any stage, the hookset data slot is empty, and the return  *)
(* value is 0.                                                             *)
C16_DeinitLeavesNothing ==
    pc = "done" =>
        /\ hooks = << >>
        /\ hsd.null
        /\ ret.deinit = RC_OK

\* deinit of an operation that had all three hooks registered and was
\* aborted by a failing mount
C16_Witness ==
    /\ pc = "done"
    /\ ret.pre = RC_OK
    /\ ret.mount = ERRNO
    /\ ret.deinit = RC_OK

IsUnshare(l) == l.call = "unshare"

IsOpenDone(l) == l.call = "open" /\ l.ok

IsSelfBind(l) == l.call = "selfbind"

IsClose(l) == l.call = "close"

(* C18: always a way back.  Whenever the process is inside the private     *)
(* namespace an open reference to the prior namespace is held, and it is   *)
(* the one in old_ns_fd once tmptgt_unshare has returned; the reference is *)
(* opened before unshare is called and not closed while still inside; the  *)
(* self-bind is attempted only right after the private-mark of the         *)
(* runtime directory has failed.                                           *)
C18_AlwaysAWayBack ==
    /\ os.ns = "priv" =>
          /\ ~hsd.null
          /\ hsd.old_ns_fd \in 0..MaxFd
          /\ os.fds[hsd.old_ns_fd] = "nsref"
    /\ \A j \in 1..Len(os.log) :
          /\ IsUnshare(os.log[j]) =>
                \E i \in 1..(j - 1) : IsOpenDone(os.log[i])
          /\ IsClose(os.log[j]) => ~InPrivateAt(j)
          /\ IsSelfBind(os.log[j]) =>
                (j > 1 /\ IsTopdirPrivateFailed(os.log[j - 1]))

\* inside the private namespace on a staging made by the fallback
C18_Witness ==
    /\ os.ns = "priv"
    /\ pc = "mount"
    /\ LogHas(IsSelfBindDone)

ClosesOf(fd) ==
    {j \in 1..Len(os.log) : IsClose(os.log[j]) /\ os.log[j].fd = fd}

SetnsOf(fd) ==
    {j \in 1..Len(os.log) : IsSetns(os.log[j]) /\ os.log[j].fd = fd}

NsRefs == {n \in 0..MaxFd : os.fds[n] = "nsref"}

(* C19: the saved reference is released exactly once.  A namespace handle  *)
(* opened by tmptgt_unshare is closed at most once and used for setns at   *)
(* most once, is closed once deinit has returned, and while open it is     *)
(* held in one place only, old_ns_fd of the per-operation state.           *)
C19_ReleasedExactlyOnce ==
    /\ \A i \in 1..Len(os.log) :
          IsOpenDone(os.log[i]) =>
            /\ Cardinality(ClosesOf(os.log[i].fd)) <= 1
            /\ Cardinality(SetnsOf(os.log[i].fd)) <= 1
            /\ \A j \in ClosesOf(os.log[i].fd) : j > i /\ os.log[j].ok
            /\ pc = "done" => Cardinality(ClosesOf(os.log[i].fd)) = 1
    /\ Cardinality(NsRefs) <= 1
    /\ \A n \in NsRefs : ~hsd.null /\ hsd.old_ns_fd = n
    /\ pc = "done" => NsRefs = {}

\* a promoted operation has been deinitialized: the handle was closed by
\* hook_mount_post and deinit had nothing left to close
C19_Witness ==
    /\ pc = "done"
    /\ ret.post = RC_OK
    /\ LogHas(IsOpenDone)
    /\ NsRefs = {}

(* C20: unsupported platform.  In a build without namespace support, once  *)
(* the directive is detected and the target copied, hook_mount_pre fails   *)
(* with -ENOSYS from tmptgt_unshare, the target is not rewritten, the      *)
(* post-mount hook is not registered, and neither hook_mount_pre nor the   *)
(* following hookset_deinit makes any namespace, mount or unmount call.    *)
C20_UnsupportedPlatform ==
    ~nsSupport =>
        /\ ~LogHas(IsHooksetCall)
        /\ os.ns = "orig"
        /\ ret.pre # "none" =>
              /\ ret.pre \in {ENOSYS, ENOMEM}
              /\ ret.pre = ENOMEM => (hsd.null \/ hsd.org_target = NULLPATH)
              /\ pc \in {"failed", "done"}
              /\ target = target0
              /\ ~Registered("MNT_STAGE_MOUNT_POST")

\* hook_mount_pre returned -ENOSYS and the operation was deinitialized
C20_Witness ==
    /\ ~nsSupport
    /\ ret.pre = ENOSYS
    /\ pc = "done"

====
